---- MODULE Spec2Model ----
(***************************************************************************)
(* The podcast backend: POST /api/generate-podcast and convertScriptToAudio *)
(* (src/server.js; src/unnamed/part_000 is a second build of the same      *)
(* program).  Several requests run concurrently on one event loop; every   *)
(* action below is one run-to-completion step of that loop: the code from  *)
(* one await / callback up to the next suspension point.  External tools   *)
(* (script generator, cloud TTS, say, ffmpeg) complete with success or     *)
(* failure chosen by the environment.                                      *)
(***************************************************************************)
EXTENDS Integers, Sequences, FiniteSets, TLC

\* ------------------------------------------------------------------ bounds
NumReqs == 2
MaxLines == 2
MaxClock == 1

Reqs == 1..NumReqs

\* ------------------------------------------------------------- file system
\* path.join(OUTPUT_DIR, `clip_${i}.mp3`)
TempPath(k) == <<"clip", k, "mp3">>
\* path.join(OUTPUT_DIR, `clip_${i}.wav`)
WavPath(k) == <<"clip", k, "wav">>
\* path.join(OUTPUT_DIR, `podcast_${Date.now()}.mp3`)
FinalPath(t) == <<"podcast", t, "mp3">>

ClipPaths == {TempPath(k) : k \in 0..(MaxLines - 1)} \cup {WavPath(k) : k \in 0..(MaxLines - 1)}
AllPaths == ClipPaths \cup {FinalPath(t) : t \in 0..MaxClock}

\* The content of a file is the sequence of texts it speaks; a path that
\* holds no file has the empty content.
Absent == <<>>
NoFile == <<>>
NoText == <<>>

\* fs.unlinkSync / deletion of a set of paths
Unlinked(f, ps) == [p \in DOMAIN f |-> IF p \in ps THEN Absent ELSE f[p]]

\* ------------------------------------------------------------- pure helpers
Undefined == "<undefined>"

\* JavaScript falsiness of a request field (!topic, !host)
Falsy(x) == x \in {Undefined, ""}

ValidationFails_AND(topic, host) == Falsy(topic) /\ Falsy(host)
\* if (!topic || !host)
ValidationFails(topic, host) == Falsy(topic) \/ Falsy(host)

\* The generator's raw text as a sequence of tokens:
\*   "FENCE" = ```   "json" = the word json   "WS" = whitespace
\*   "ARR" = a JSON array of {speaker, text}   "TXT" = prose
RECURSIVE StripFences(_)
\* .replace(/```(json)?/g, "")
StripFences(s) ==
    IF s = <<>> THEN <<>>
    ELSE IF s[1] = "FENCE"
         THEN IF Len(s) >= 2 /\ s[2] = "json"
              THEN StripFences(SubSeq(s, 3, Len(s)))
              ELSE StripFences(Tail(s))
         ELSE <<s[1]>> \o StripFences(Tail(s))

RECURSIVE TrimLeft(_)
TrimLeft(s) == IF s # <<>> /\ s[1] = "WS" THEN TrimLeft(Tail(s)) ELSE s

RECURSIVE TrimRight(_)
TrimRight(s) ==
    IF s # <<>> /\ s[Len(s)] = "WS" THEN TrimRight(SubSeq(s, 1, Len(s) - 1)) ELSE s

\* .trim()
Trim(s) == TrimRight(TrimLeft(s))

JSONParses_Lenient(s) == \E k \in DOMAIN s : s[k] = "ARR"
\* JSON.parse(script) does not throw
JSONParses(s) == s = <<"ARR">>

\* { speaker, text } of line k (0-based) of request r's script, whose
\* speakers are those of `cast`, taking turns
Line(r, k, cast) == [speaker |-> cast[(k % Len(cast)) + 1], text |-> <<r, k>>]
ScriptOf(r, n, cast) == [k \in 1..n |-> Line(r, k - 1, cast)]

\* --------------------------------------------------------------- gender map
\* const genderMap = {}: the own properties, as a function from their names
EmptyObject == [key \in {} |-> Undefined]

\* what the properties inherited from Object.prototype evaluate to
ObjectPrototype == "[object Object.prototype]"
InheritedFunction == "[Function]"
InheritedNames == {"constructor", "toString"}

\* obj[key] = v, for a v that is a string or undefined: the key "__proto__"
\* goes to the setter inherited from Object.prototype, which ignores a value
\* that is neither an object nor null; any other key becomes an own property
SetProp(obj, key, v) ==
    IF key = "__proto__" THEN obj
    ELSE [n \in DOMAIN obj \cup {key} |-> IF n = key THEN v ELSE obj[n]]

\* obj[key]: the own property, else the inherited one, else undefined
GetProp(obj, key) ==
    IF key \in DOMAIN obj THEN obj[key]
    ELSE IF key = "__proto__" THEN ObjectPrototype
    ELSE IF key \in InheritedNames THEN InheritedFunction
    ELSE Undefined

\* const guests = Array.isArray(guestname) ? guestname : []; sequences model
\* arrays, every other value is no array
Guests(guestname) == IF guestname \in Seq({"Sam", "__proto__"}) THEN guestname ELSE <<>>

RECURSIVE WithGuests(_, _, _)
\* for (const g of guests) genderMap[g] = guestGender
WithGuests(obj, gs, guestGender) ==
    IF gs = <<>> THEN obj
    ELSE WithGuests(SetProp(obj, gs[1], guestGender), Tail(gs), guestGender)

\* the genderMap the route builds from req.body: host first, then the guests
GenderMapOf(b) ==
    WithGuests(IF Falsy(b.host) THEN EmptyObject ELSE SetProp(EmptyObject, b.host, b.hostGender),
               Guests(b.guestname), b.guestGender)

\* const gender = ...: server.js reads genderMap?.[speaker]; part_000 reads
\* genderMap && genderMap[speaker] ? genderMap[speaker] : undefined
GenderOf(obj, speaker, b) ==
    IF b = "server.js" THEN GetProp(obj, speaker)
    ELSE IF Falsy(GetProp(obj, speaker)) THEN Undefined ELSE GetProp(obj, speaker)

\* const ssmlGender = gender === "male" ? "MALE" : gender === "female" ? "FEMALE" : "NEUTRAL"
SsmlGender(gender) ==
    IF gender = "male" THEN "MALE" ELSE IF gender = "female" THEN "FEMALE" ELSE "NEUTRAL"

\* the audio a backend renders for a line
Audio(line) == <<line.text>>

LoopContinues_OffByOne(k, n) == k < n - 1
\* for (let i = 0; i < script.length; i++)
LoopContinues(k, n) == k < n

Pushed_Unshift(tf, p) == <<p>> \o tf
\* tempFiles.push(tempPath)
Pushed(tf, p) == Append(tf, p)

RECURSIVE Concat(_, _)
\* what ffmpeg's concatenation reads from the ordered inputs
Concat(f, ps) == IF ps = <<>> THEN <<>> ELSE f[ps[1]] \o Concat(f, Tail(ps))

\* ---------------------------------------------------------- voice selection
\* the values of process.platform
Platforms == {"aix", "android", "darwin", "freebsd", "linux", "openbsd", "sunos", "win32"}

\* what a genderMap lookup can give: the request's strings, or undefined
Genders == {"male", "female", "other", "Male", "MALE", "", Undefined}

NoVoice == "<no call>"

getOsVoiceNameByGender_FemaleTest(gender, plat) ==
    IF plat = "win32"
    THEN IF gender = "female" THEN "Microsoft Zira Desktop" ELSE "Microsoft David Desktop"
    ELSE IF plat = "darwin"
    THEN IF gender = "female" THEN "Samantha" ELSE "Alex"
    ELSE IF gender = "female" THEN "en+f3" ELSE "en+m3"
\* function getOsVoiceNameByGender(gender), reading process.platform
getOsVoiceNameByGender(gender, plat) ==
    IF plat = "win32"
    THEN IF gender = "male" THEN "Microsoft David Desktop" ELSE "Microsoft Zira Desktop"
    ELSE IF plat = "darwin"
    THEN IF gender = "male" THEN "Alex" ELSE "Samantha"
    ELSE IF gender = "male" THEN "en+m3" ELSE "en+f3"

\* the platform of the request pipeline's runs
MainPlatforms == {"linux"}

\* ------------------------------------------------------ backend selection
\* The environment of the process.  use: USE_GOOGLE_TTS is "1".
\* pathVar: GOOGLE_TTS_CREDENTIALS_PATH || GOOGLE_APPLICATION_CREDENTIALS:
\*   "unset", "file" (names an existing file) or "nofile".
\* creds: GOOGLE_TTS_CREDENTIALS: "unset", "path" (names an existing file),
\*   "b64" (base64 of JSON), "b64raw" (JSON text whose base64 decoding is JSON
\*   too), "raw" (JSON text), "rawpartial" (JSON text without private_key and
\*   project_id) or "junk".
\* lib: what @google-cloud/text-to-speech does: "ok", "require-throws" or
\*   "ctor-throws".
PathVars == {"unset", "file", "nofile"}
CredsKinds == {"unset", "path", "b64", "b64raw", "raw", "rawpartial", "junk"}
LibKinds == {"ok", "require-throws", "ctor-throws"}
Envs == [use : BOOLEAN, pathVar : PathVars, creds : CredsKinds, lib : LibKinds]

\* a variable of process.env is truthy
IsSet(v) == v # "unset"

\* fs.existsSync(path) for the two variables
ExistsSync(v) == v \in {"file", "path"}

\* Buffer.from(creds, "base64").toString("utf8"): never throws
Base64Decoded(c) == IF c \in {"b64", "b64raw"} THEN "json:A" ELSE "garbage"

\* JSON.parse(text) does not throw
CredsParse(t) == t \in {"json:A", "b64raw", "raw", "rawpartial"}

\* a private key as a sequence of tokens: "K" key material, "ESCNL" the two
\* characters \n, "NL" a newline, "CR" a carriage return, "WS" a blank
KeyA == <<"K", "ESCNL", "K", "CR", "WS">>
KeyB == <<"WS", "K", "ESCNL", "K">>

\* JSON.parse(text), for a text that parses
CredsDoc(t) ==
    IF t = "json:A"
    THEN [client_email |-> "a@svc", private_key |-> KeyA, project_id |-> "proj-a"]
    ELSE IF t = "rawpartial"
    THEN [client_email |-> "p@svc", private_key |-> Undefined, project_id |-> Undefined]
    ELSE [client_email |-> "b@svc", private_key |-> KeyB, project_id |-> "proj-b"]

RECURSIVE WithoutCR(_)
\* .replace(/\r/g, "")
WithoutCR(k) ==
    IF k = <<>> THEN <<>>
    ELSE IF k[1] = "CR" THEN WithoutCR(Tail(k)) ELSE <<k[1]>> \o WithoutCR(Tail(k))

\* .replace(/\\n/g, "\n")
Unescaped(k) == [j \in DOMAIN k |-> IF k[j] = "ESCNL" THEN "NL" ELSE k[j]]

RECURSIVE KeyTrimLeft(_)
KeyTrimLeft(k) ==
    IF k # <<>> /\ k[1] \in {"WS", "NL", "CR"} THEN KeyTrimLeft(Tail(k)) ELSE k

RECURSIVE KeyTrimRight(_)
KeyTrimRight(k) ==
    IF k # <<>> /\ k[Len(k)] \in {"WS", "NL", "CR"}
    THEN KeyTrimRight(SubSeq(k, 1, Len(k) - 1))
    ELSE k

\* normalizedPrivateKey: server.js removes \r, unescapes \n and trims;
\* part_000 only unescapes \n; a key that is no string is passed on as it is
NormalizedKey(k, b) ==
    IF k = Undefined THEN Undefined
    ELSE IF b = "server.js" THEN KeyTrimRight(KeyTrimLeft(Unescaped(WithoutCR(k))))
    ELSE Unescaped(k)

NoOptions == [kind |-> "undefined", keyFilename |-> "", creds |-> <<>>]
KeyFile(v) == [kind |-> "keyFilename", keyFilename |-> v, creds |-> <<>>]
Inline(doc, b) ==
    [kind |-> "credentials", keyFilename |-> "",
     creds |-> <<doc.client_email, NormalizedKey(doc.private_key, b), doc.project_id>>]

\* what the startup code did: the credential source it chose, the options it
\* built, how many times it called the constructor, whether anything threw
BootOf(src, opts, n, threw) == [source |-> src, options |-> opts, attempts |-> n, threw |-> threw]
NotBooted == BootOf("none", NoOptions, 0, FALSE)

\* if (!useGoogleTts && (googleTtsCredsEnv || googleTtsCredsPathEnv)) useGoogleTts = true
Intent(e) == e.use \/ IsSet(e.creds) \/ IsSet(e.pathVar)

CredsString_RawFirst(c) == IF CredsParse(c) THEN c ELSE Base64Decoded(c)
\* credsStr: the decoded text if it parses as JSON, else the original string
CredsString(c) == IF CredsParse(Base64Decoded(c)) THEN Base64Decoded(c) ELSE c

SourceOf_CredsFirst(e) ==
    IF IsSet(e.creds) /\ ExistsSync(e.creds) THEN "creds-file"
    ELSE IF IsSet(e.pathVar) /\ ExistsSync(e.pathVar) THEN "pathvar-file"
    ELSE IF IsSet(e.creds) THEN "inline"
    ELSE "default"
\* the branch of the if / else if chain that builds clientOptions
SourceOf(e) ==
    IF IsSet(e.pathVar) /\ ExistsSync(e.pathVar) THEN "pathvar-file"
    ELSE IF IsSet(e.creds)
         THEN IF ExistsSync(e.creds) THEN "creds-file" ELSE "inline"
         ELSE "default"

Caught_KeepCloud(src, opts, n) ==
    [useGoogleTts |-> TRUE, googleTtsClient |-> "null", boot |-> BootOf(src, opts, n, TRUE)]
\* catch (err) { console.warn(...); useGoogleTts = false; }
Caught(src, opts, n) ==
    [useGoogleTts |-> FALSE, googleTtsClient |-> "null", boot |-> BootOf(src, opts, n, TRUE)]

\* the module's top level from `let useGoogleTts` to the end of the try/catch
SelectBackend(e, b) ==
    IF ~Intent(e)
    THEN [useGoogleTts |-> FALSE, googleTtsClient |-> "null", boot |-> NotBooted]
    ELSE IF e.lib = "require-throws" THEN Caught("none", NoOptions, 0)
    ELSE LET src == SourceOf(e)
             str == CredsString(e.creds) IN
         IF src = "inline" /\ ~CredsParse(str) THEN Caught(src, NoOptions, 0)
         ELSE LET opts == IF src = "pathvar-file" THEN KeyFile(e.pathVar)
                          ELSE IF src = "creds-file" THEN KeyFile(e.creds)
                          ELSE IF src = "inline" THEN Inline(CredsDoc(str), b)
                          ELSE NoOptions IN
              IF e.lib = "ctor-throws" THEN Caught(src, opts, 1)
              ELSE [useGoogleTts |-> TRUE, googleTtsClient |-> "client",
                    boot |-> BootOf(src, opts, 1, FALSE)]

\* the environments of the request pipeline's runs: no credentials, and a
\* key file
MainEnvs ==
    { [use |-> FALSE, pathVar |-> "unset", creds |-> "unset", lib |-> "ok"],
      [use |-> FALSE, pathVar |-> "file", creds |-> "unset", lib |-> "ok"] }


\* -------------------------------------------------------------------- state
VARIABLES
    build,            \* which build runs: "server.js" or "part_000"
    env,              \* process.env, as far as the backend selection reads it
    started,          \* the module's top level has run: app.listen was called
    boot,             \* what the backend selection did (see BootOf)
    platform,         \* process.platform
    voiceGender,      \* the argument of a getOsVoiceNameByGender call on its own
    voiceName,        \* what that call returned
    useGoogleTts,     \* let useGoogleTts
    googleTtsClient,  \* let googleTtsClient ("null" or "client")
    now,              \* Date.now()
    fs,               \* the output directory: path -> content
    crashed,          \* an exception escaped an event callback: the process died
    pc,               \* per request: where its handler is suspended
    body,             \* per request: req.body
    genderMap,        \* per request: the route's genderMap
    raw,              \* per request: result.response.text()
    script,           \* per request: the parsed script
    i,                \* per request: the loop index of convertScriptToAudio
    tempFiles,        \* per request: const tempFiles
    finalFile,        \* per request: const finalFile
    response,         \* per request: the responses sent on res
    genCalls,         \* per request: number of model.generateContent calls
    calls,            \* per request: line indices of the backend calls started
    handed,           \* per request: what each backend call was made with
    produced,         \* per request: paths written by the completed backend calls
    written,          \* per request: paths it wrote or deleted
    failed,           \* per request: lines whose backend call failed
    mergeInputs,      \* per request: the paths handed to ff.input
    merged            \* per request: what ffmpeg read from them

startup == <<env, started, boot>>
voice == <<platform, voiceGender, voiceName>>
shared == <<build, startup, voice, useGoogleTts, googleTtsClient, now, fs, crashed>>
perReq == <<pc, body, genderMap, raw, script, i, tempFiles, finalFile, response>>
history == <<genCalls, calls, handed, produced, written, failed, mergeInputs, merged>>
vars == <<shared, perReq, history>>

Builds == {"server.js", "part_000"}

\* if (useGoogleTts && googleTtsClient)
UsesCloud == useGoogleTts /\ googleTtsClient # "null"

\* ---------------------------------------------------------------- responses
Ok200(s, f) == [status |-> 200, error |-> "", script |-> s, audio |-> <<"/audio/", f>>]
Err(st, msg) == [status |-> st, error |-> msg, script |-> <<>>, audio |-> <<>>]

\* res.status(400).json({ error: "Please provide a topic and host name." })
Err400 == Err(400, "Please provide a topic and host name.")
\* res.status(500).json({ error: "AI output invalid format" })
ErrFormat == Err(500, "AI output invalid format")
\* res.status(500).json({ error: "Failed to generate podcast script or audio." })
ErrGeneric == Err(500, "Failed to generate podcast script or audio.")

\* req.body with the fields the route reads
Body(topic, host, extra) ==
    [topic |-> topic, host |-> host, hostGender |-> extra.hostGender,
     guestGender |-> extra.guestGender, guestname |-> extra.guestname]

NoExtra == [hostGender |-> Undefined, guestGender |-> Undefined, guestname |-> Undefined]
NoBody == Body(Undefined, Undefined, NoExtra)

\* no request has arrived yet
NoRequests ==
    /\ now = 0
    /\ fs = [p \in AllPaths |-> Absent]
    /\ crashed = FALSE
    /\ pc = [r \in Reqs |-> "idle"]
    /\ body = [r \in Reqs |-> NoBody]
    /\ genderMap = [r \in Reqs |-> EmptyObject]
    /\ raw = [r \in Reqs |-> NoText]
    /\ script = [r \in Reqs |-> <<>>]
    /\ i = [r \in Reqs |-> 0]
    /\ tempFiles = [r \in Reqs |-> <<>>]
    /\ finalFile = [r \in Reqs |-> NoFile]
    /\ response = [r \in Reqs |-> <<>>]
    /\ genCalls = [r \in Reqs |-> 0]
    /\ calls = [r \in Reqs |-> <<>>]
    /\ handed = [r \in Reqs |-> <<>>]
    /\ produced = [r \in Reqs |-> <<>>]
    /\ written = [r \in Reqs |-> {}]
    /\ failed = [r \in Reqs |-> {}]
    /\ mergeInputs = [r \in Reqs |-> <<>>]
    /\ merged = [r \in Reqs |-> <<>>]

\* the process once the module's top level has run and the server listens
Init ==
    /\ build \in Builds
    /\ env \in MainEnvs
    /\ started = TRUE
    /\ useGoogleTts = SelectBackend(env, build).useGoogleTts
    /\ googleTtsClient = SelectBackend(env, build).googleTtsClient
    /\ boot = SelectBackend(env, build).boot
    /\ platform \in MainPlatforms
    /\ voiceGender = Undefined
    /\ voiceName = NoVoice
    /\ NoRequests


\* ------------------------------------------------------------------ actions
\* res.json(...) / res.status(...).json(...): the handler ends
Respond(r, resp) ==
    /\ response' = [response EXCEPT ![r] = Append(@, resp)]
    /\ pc' = [pc EXCEPT ![r] = "done"]

\* the backend call of line k: the branch of `if (useGoogleTts &&
\* googleTtsClient)` taken, the line's speaker, the ssmlGender or voiceName
\* passed, and whether any call had failed before it
Handed(r, k, sc) ==
    [line |-> k,
     backend |-> IF UsesCloud THEN "cloud" ELSE "local",
     speaker |-> sc[k + 1].speaker,
     param |-> LET gender == GenderOf(genderMap[r], sc[k + 1].speaker, build) IN
               IF UsesCloud THEN SsmlGender(gender)
               ELSE getOsVoiceNameByGender(gender, platform),
     afterFailure |-> \E q \in Reqs : failed[q] # {}]

\* convertScriptToAudio from the top of loop iteration k (tempFiles = tf, the
\* script is sc) up to its next await: the backend call for line k, or,
\* after the loop, the merge
Continue(r, k, tf, sc) ==
    /\ i' = [i EXCEPT ![r] = k]
    /\ tempFiles' = [tempFiles EXCEPT ![r] = tf]
    /\ IF LoopContinues(k, Len(sc))
       THEN /\ pc' = [pc EXCEPT ![r] = IF UsesCloud THEN "tts" ELSE "say"]
            /\ calls' = [calls EXCEPT ![r] = Append(@, k)]
            /\ handed' = [handed EXCEPT ![r] = Append(@, Handed(r, k, sc))]
            /\ UNCHANGED <<finalFile, mergeInputs>>
       ELSE /\ pc' = [pc EXCEPT ![r] = "merge"]
            /\ finalFile' = [finalFile EXCEPT ![r] = FinalPath(now)]
            /\ mergeInputs' = [mergeInputs EXCEPT ![r] = tf]
            /\ UNCHANGED <<calls, handed>>

\* a rejection inside convertScriptToAudio reaches the route's catch
Rejected(r) ==
    /\ Respond(r, ErrGeneric)
    /\ UNCHANGED <<shared, body, genderMap, raw, script, i, tempFiles, finalFile>>
    /\ UNCHANGED <<genCalls, calls, handed, produced, written, mergeInputs, merged>>

BackendAfterFailure_Fallback(u) == FALSE
\* the handler's catch block leaves useGoogleTts as it is
BackendAfterFailure(u) == u

\* app.post("/api/generate-podcast"): validation, prompt, model.generateContent
Receive(r, topic, host, extra) ==
    /\ ~crashed
    /\ started
    /\ pc[r] = "idle"
    /\ body' = [body EXCEPT ![r] = Body(topic, host, extra)]
    /\ IF ValidationFails(topic, host)
       THEN /\ Respond(r, Err400)
            /\ UNCHANGED <<genCalls, genderMap>>
       ELSE /\ pc' = [pc EXCEPT ![r] = "generate"]
            /\ genderMap' = [genderMap EXCEPT ![r] = GenderMapOf(Body(topic, host, extra))]
            /\ genCalls' = [genCalls EXCEPT ![r] = @ + 1]
            /\ UNCHANGED response
    /\ UNCHANGED <<shared, raw, script, i, tempFiles, finalFile>>
    /\ UNCHANGED <<calls, handed, produced, written, failed, mergeInputs, merged>>

\* model.generateContent resolves with `text`: strip, parse, and on success
\* enter convertScriptToAudio with a script of n lines spoken by `cast`
GenerateDone(r, text, n, cast) ==
    /\ ~crashed
    /\ pc[r] = "generate"
    /\ raw' = [raw EXCEPT ![r] = text]
    /\ IF JSONParses(Trim(StripFences(text)))
       THEN /\ script' = [script EXCEPT ![r] = ScriptOf(r, n, cast)]
            /\ Continue(r, 0, <<>>, ScriptOf(r, n, cast))
            /\ UNCHANGED response
       ELSE /\ Respond(r, ErrFormat)
            /\ UNCHANGED <<script, i, tempFiles, finalFile, calls, handed, mergeInputs>>
    /\ UNCHANGED <<shared, body, genderMap, genCalls, produced, written, failed, merged>>

\* model.generateContent rejects
GenerateFail(r) ==
    /\ ~crashed
    /\ pc[r] = "generate"
    /\ Rejected(r)
    /\ UNCHANGED failed

\* googleTtsClient.synthesizeSpeech resolves: write the clip, push, next line
TtsDone(r) ==
    /\ ~crashed
    /\ pc[r] = "tts"
    /\ LET p == TempPath(i[r]) IN
          /\ fs' = [fs EXCEPT ![p] = Audio(script[r][i[r] + 1])]
          /\ written' = [written EXCEPT ![r] = @ \cup {p}]
          /\ produced' = [produced EXCEPT ![r] = Append(@, p)]
          /\ Continue(r, i[r] + 1, Pushed(tempFiles[r], p), script[r])
    /\ UNCHANGED <<build, startup, voice, useGoogleTts, googleTtsClient, now, crashed>>
    /\ UNCHANGED <<body, genderMap, raw, script, response, genCalls, failed, merged>>

\* googleTtsClient.synthesizeSpeech rejects (or the response cannot be written)
TtsFail(r) ==
    /\ ~crashed
    /\ pc[r] = "tts"
    /\ failed' = [failed EXCEPT ![r] = @ \cup {i[r]}]
    /\ Respond(r, ErrGeneric)
    /\ useGoogleTts' = BackendAfterFailure(useGoogleTts)
    /\ UNCHANGED <<build, startup, voice, googleTtsClient, now, fs, crashed>>
    /\ UNCHANGED <<body, genderMap, raw, script, i, tempFiles, finalFile>>
    /\ UNCHANGED <<genCalls, calls, handed, produced, written, mergeInputs, merged>>

SayExported_Resolves(r) == Continue(r, i[r] + 1, tempFiles[r], script[r])
\* the say.export callback starts ffmpeg and returns: the line's promise stays
\* pending until ffmpeg's "end" handler calls resolve()
SayExported(r) ==
    /\ pc' = [pc EXCEPT ![r] = "transcode"]
    /\ UNCHANGED <<i, tempFiles, finalFile, calls, handed, mergeInputs>>

\* say.export calls back without error: the WAV is written, ffmpeg is started
SayDone(r) ==
    /\ ~crashed
    /\ pc[r] = "say"
    /\ LET w == WavPath(i[r]) IN
          /\ fs' = [fs EXCEPT ![w] = Audio(script[r][i[r] + 1])]
          /\ written' = [written EXCEPT ![r] = @ \cup {w}]
    /\ SayExported(r)
    /\ UNCHANGED <<build, startup, voice, useGoogleTts, googleTtsClient, now, crashed>>
    /\ UNCHANGED <<body, genderMap, raw, script, response>>
    /\ UNCHANGED <<genCalls, produced, failed, merged>>

\* say.export calls back with err: reject(err)
SayFail(r) ==
    /\ ~crashed
    /\ pc[r] = "say"
    /\ failed' = [failed EXCEPT ![r] = @ \cup {i[r]}]
    /\ Rejected(r)

\* the ffmpeg process reads clip_i.wav and writes clip_i.mp3
TranscodeRun(r) ==
    /\ ~crashed
    /\ pc[r] = "transcode"
    /\ fs[WavPath(i[r])] # Absent
    /\ LET p == TempPath(i[r]) IN
          /\ fs' = [fs EXCEPT ![p] = fs[WavPath(i[r])]]
          /\ written' = [written EXCEPT ![r] = @ \cup {p}]
          /\ produced' = [produced EXCEPT ![r] = Append(@, p)]
    /\ pc' = [pc EXCEPT ![r] = "transcoded"]
    /\ UNCHANGED <<build, startup, voice, useGoogleTts, googleTtsClient, now, crashed>>
    /\ UNCHANGED <<body, genderMap, raw, script, i, tempFiles, finalFile, response>>
    /\ UNCHANGED <<genCalls, calls, handed, failed, mergeInputs, merged>>

\* the ffmpeg process fails (always so when its input is gone): .on("error", reject)
TranscodeFail(r) ==
    /\ ~crashed
    /\ pc[r] = "transcode"
    /\ failed' = [failed EXCEPT ![r] = @ \cup {i[r]}]
    /\ Rejected(r)

\* .on("end"): unlink the WAV, push the clip, resolve, next line.  The unlink
\* throws when the WAV is gone: server.js lets that escape the event callback,
\* part_000 swallows it (try { fs.unlinkSync(wavPath); } catch { })
TranscodeEnd(r) ==
    /\ ~crashed
    /\ pc[r] = "transcoded"
    /\ LET w == WavPath(i[r]) IN
       IF fs[w] = Absent /\ build = "server.js"
       THEN /\ crashed' = TRUE
            /\ UNCHANGED <<build, startup, voice, useGoogleTts, googleTtsClient, now, fs>>
            /\ UNCHANGED <<perReq, history>>
       ELSE /\ fs' = Unlinked(fs, {w})
            /\ written' = [written EXCEPT ![r] = @ \cup {w}]
            /\ Continue(r, i[r] + 1, Pushed(tempFiles[r], TempPath(i[r])), script[r])
            /\ UNCHANGED <<build, startup, voice, useGoogleTts, googleTtsClient, now, crashed>>
            /\ UNCHANGED <<body, genderMap, raw, script, response>>
            /\ UNCHANGED <<genCalls, produced, failed, merged>>

\* the ffmpeg concatenation reads every input and writes the final file
MergeRun(r) ==
    /\ ~crashed
    /\ pc[r] = "merge"
    /\ mergeInputs[r] # <<>>
    /\ \A k \in DOMAIN mergeInputs[r] : fs[mergeInputs[r][k]] # Absent
    /\ fs' = [fs EXCEPT ![finalFile[r]] = Concat(fs, mergeInputs[r])]
    /\ merged' = [merged EXCEPT ![r] = Concat(fs, mergeInputs[r])]
    /\ pc' = [pc EXCEPT ![r] = "merged"]
    /\ UNCHANGED <<build, startup, voice, useGoogleTts, googleTtsClient, now, crashed>>
    /\ UNCHANGED <<body, genderMap, raw, script, i, tempFiles, finalFile, response>>
    /\ UNCHANGED <<genCalls, calls, handed, produced, written, failed, mergeInputs>>

\* the concatenation fails (always so without inputs or with an input gone):
\* .on("error", reject)
MergeFail(r) ==
    /\ ~crashed
    /\ pc[r] = "merge"
    /\ Rejected(r)
    /\ UNCHANGED failed

\* the first clip of tempFiles that fs.unlinkSync cannot delete (0 if none)
FirstMissing(f, tf) ==
    IF \E k \in DOMAIN tf : f[tf[k]] = Absent
    THEN CHOOSE k \in DOMAIN tf :
            /\ f[tf[k]] = Absent
            /\ \A j \in 1..(k - 1) : f[tf[j]] # Absent
    ELSE 0

\* .on("end"): tempFiles.forEach(unlinkSync), resolve, return finalFile, and
\* the route answers 200.  An unlinkSync that throws escapes the event callback
MergeEnd(r) ==
    /\ ~crashed
    /\ pc[r] = "merged"
    /\ LET tf == tempFiles[r]
           m == FirstMissing(fs, tf) IN
       IF m # 0
       THEN /\ crashed' = TRUE
            /\ fs' = Unlinked(fs, {tf[j] : j \in 1..(m - 1)})
            /\ written' = [written EXCEPT ![r] = @ \cup {tf[j] : j \in 1..(m - 1)}]
            /\ UNCHANGED <<pc, response>>
       ELSE /\ fs' = Unlinked(fs, {tf[j] : j \in DOMAIN tf})
            /\ written' = [written EXCEPT ![r] = @ \cup {tf[j] : j \in DOMAIN tf}]
            /\ Respond(r, Ok200(script[r], finalFile[r]))
            /\ UNCHANGED crashed
    /\ UNCHANGED <<build, startup, voice, useGoogleTts, googleTtsClient, now>>
    /\ UNCHANGED <<body, genderMap, raw, script, i, tempFiles, finalFile>>
    /\ UNCHANGED <<genCalls, calls, handed, produced, failed, mergeInputs, merged>>

\* the clock of Date.now() advances
Tick ==
    /\ ~crashed
    /\ now < MaxClock
    /\ now' = now + 1
    /\ UNCHANGED <<build, startup, voice, useGoogleTts, googleTtsClient, fs, crashed>>
    /\ UNCHANGED <<perReq, history>>

\* ------------------------------------------------------------------ inputs
Topics == {Undefined, "", "AI"}
Hosts == {Undefined, "", "Mia"}

\* hostGender, guestGender and guestname of a request: a host and a guest of
\* different genders; or no host gender and a guest called __proto__
Extras ==
    { [hostGender |-> "female", guestGender |-> "male", guestname |-> <<"Sam">>],
      [hostGender |-> Undefined, guestGender |-> "male", guestname |-> <<"__proto__">>] }

\* the speakers the generator gives the lines of a script for req.body = b:
\* the first guest then the host, or someone the request does not name then
\* the host
Casts(b) ==
    { <<IF Guests(b.guestname) = <<>> THEN "Zed" ELSE Guests(b.guestname)[1], b.host>>,
      <<"Zed", b.host>> }

GenOutputs ==
    { <<"WS", "FENCE", "json", "WS", "ARR", "WS", "FENCE", "WS">>,
      <<"FENCE", "WS", "TXT", "FENCE">>,
      <<"TXT">>,
      <<"TXT", "WS", "ARR">>,
      <<"json", "WS", "ARR">>,
      <<"FENCE", "json", "WS", "FENCE">> }

Next ==
    \/ \E r \in Reqs, topic \in Topics, host \in Hosts, extra \in Extras :
          Receive(r, topic, host, extra)
    \/ \E r \in Reqs, text \in GenOutputs, n \in 0..MaxLines :
          \E cast \in Casts(body[r]) : GenerateDone(r, text, n, cast)
    \/ \E r \in Reqs : GenerateFail(r)
    \/ \E r \in Reqs : TtsDone(r)
    \/ \E r \in Reqs : TtsFail(r)
    \/ \E r \in Reqs : SayDone(r)
    \/ \E r \in Reqs : SayFail(r)
    \/ \E r \in Reqs : TranscodeRun(r)
    \/ \E r \in Reqs : TranscodeFail(r)
    \/ \E r \in Reqs : TranscodeEnd(r)
    \/ \E r \in Reqs : MergeRun(r)
    \/ \E r \in Reqs : MergeFail(r)
    \/ \E r \in Reqs : MergeEnd(r)
    \/ Tick

Spec == Init /\ [][Next]_vars

\* every step of request r after its arrival: an external call (generator,
\* cloud TTS, voice engine, ffmpeg) completing with success or failure,
\* together with the handler code its completion runs
Completion(r) ==
    \/ \E text \in GenOutputs, n \in 0..MaxLines :
          \E cast \in Casts(body[r]) : GenerateDone(r, text, n, cast)
    \/ GenerateFail(r)
    \/ TtsDone(r) \/ TtsFail(r)
    \/ SayDone(r) \/ SayFail(r)
    \/ TranscodeRun(r) \/ TranscodeFail(r) \/ TranscodeEnd(r)
    \/ MergeRun(r) \/ MergeFail(r) \/ MergeEnd(r)

\* the pipeline when no external call hangs: a pending call of any request
\* eventually completes and the event loop runs its callback
FairSpec == Spec /\ \A r \in Reqs : WF_vars(Completion(r))


\* ------------------------------------------------------------------ startup
\* the process as node starts it, in any environment
StartupInit ==
    /\ build \in Builds
    /\ env \in Envs
    /\ started = FALSE
    /\ useGoogleTts = env.use
    /\ googleTtsClient = "null"
    /\ boot = NotBooted
    /\ platform \in MainPlatforms
    /\ voiceGender = Undefined
    /\ voiceName = NoVoice
    /\ NoRequests

\* the module's top level runs to app.listen
Boot ==
    /\ ~started
    /\ started' = TRUE
    /\ useGoogleTts' = SelectBackend(env, build).useGoogleTts
    /\ googleTtsClient' = SelectBackend(env, build).googleTtsClient
    /\ boot' = SelectBackend(env, build).boot
    /\ UNCHANGED <<build, env, voice, now, fs, crashed, perReq, history>>

StartupNext == Boot

StartupSpec == StartupInit /\ [][StartupNext]_vars


\* ---------------------------------------------------- voice selection alone
\* a process on any platform about to select a voice for any gender value
VoiceInit ==
    /\ build \in Builds
    /\ env \in {e \in MainEnvs : ~Intent(e)}
    /\ started = TRUE
    /\ useGoogleTts = FALSE
    /\ googleTtsClient = "null"
    /\ boot = NotBooted
    /\ platform \in Platforms
    /\ voiceGender \in Genders
    /\ voiceName = NoVoice
    /\ NoRequests

\* const voiceName = getOsVoiceNameByGender(gender)
SelectVoice ==
    /\ voiceName = NoVoice
    /\ voiceName' = getOsVoiceNameByGender(voiceGender, platform)
    /\ UNCHANGED <<build, startup, platform, voiceGender>>
    /\ UNCHANGED <<useGoogleTts, googleTtsClient, now, fs, crashed, perReq, history>>

VoiceNext == SelectVoice

VoiceSpec == VoiceInit /\ [][VoiceNext]_vars


\* ------------------------------------------------------------- vocabulary
Has200(r) == response[r] # <<>> /\ response[r][1].status = 200
MergeInvoked(r) == finalFile[r] # NoFile
InFlight(r) == pc[r] \notin {"idle", "done"}
LineIndices(r) == [k \in 1..Len(script[r]) |-> k - 1]
OwnAudio(r) == [k \in 1..Len(script[r]) |-> <<r, k - 1>>]
Answers200(r) == response[r] = <<>> /\ response'[r] # <<>> /\ response'[r][1].status = 200

\* C1: the merge is invoked, and a final file exists for a request, only when
\* the backend call of every line of its script has been made and has
\* succeeded: none failed, none is missing.
FinalFileOnlyAfterAllLines ==
    \A r \in Reqs :
        (MergeInvoked(r) \/ pc[r] \in {"merge", "merged"} \/ merged[r] # <<>> \/ Has200(r))
        => /\ failed[r] = {}
           /\ calls[r] = LineIndices(r)
           /\ Len(produced[r]) = Len(script[r])
           /\ Len(tempFiles[r]) = Len(script[r])

C1_Witness == \E r \in Reqs : Has200(r) /\ Len(script[r]) = MaxLines /\ ~UsesCloud

\* C2: for a script of N >= 1 lines the merge receives exactly N paths, the
\* k-th being the file the one backend call of line k wrote; every line has
\* exactly one call and one path.
MergeReceivesOneClipPerLine ==
    \A r \in Reqs :
        (MergeInvoked(r) /\ Len(script[r]) >= 1)
        => /\ Len(mergeInputs[r]) = Len(script[r])
           /\ mergeInputs[r] = produced[r]
           /\ calls[r] = LineIndices(r)
           /\ \A j, k \in DOMAIN mergeInputs[r] :
                 j # k => mergeInputs[r][j] # mergeInputs[r][k]

C2_Witness ==
    \E r \in Reqs : pc[r] = "merge" /\ Len(script[r]) = MaxLines /\ UsesCloud
                    /\ Len(mergeInputs[r]) = MaxLines

\* C3: at the moment a request is answered 200 (its merge succeeded and its
\* clips were deleted) no clip_<k>.mp3 or clip_<k>.wav is left in the output
\* directory, whatever other requests did.
NoTempClipsAfterSuccessfulMerge ==
    [][\A r \in Reqs : Answers200(r) => \A p \in ClipPaths : fs'[p] = Absent]_vars

\* C4: two requests in flight at the same time never write or delete the same
\* temp clip path.
TempClipPathsDisjoint ==
    \A r1, r2 \in Reqs :
        (r1 # r2 /\ InFlight(r1) /\ InFlight(r2))
        => (written[r1] \cap ClipPaths) \cap written[r2] = {}

\* C5: what the merge of a request reads at its k-th clip path is the audio of
\* that request's own line k, in script order.
MergedAudioIsOwnLines ==
    \A r \in Reqs : merged[r] # <<>> => merged[r] = OwnAudio(r)

\* C6: a request whose topic or host is missing or empty is answered 400 with
\* an error body, and for it the generator is never called, no backend call
\* is made and no file is written or deleted.
InvalidBody(r) ==
    \/ body[r].topic = Undefined \/ body[r].topic = ""
    \/ body[r].host = Undefined \/ body[r].host = ""

InvalidRequestHasNoEffect ==
    \A r \in Reqs :
        (pc[r] # "idle" /\ InvalidBody(r))
        => /\ pc[r] = "done"
           /\ response[r] = <<Err400>>
           /\ genCalls[r] = 0
           /\ calls[r] = <<>>
           /\ written[r] = {}
           /\ ~MergeInvoked(r)

C6_Witness ==
    \E r \in Reqs : /\ body[r].topic = "AI" /\ body[r].host = ""
                    /\ response[r] = <<Err400>>
                    /\ \E p \in ClipPaths : fs[p] # Absent

\* C7: when the generator's text is not JSON once the fences and the outer
\* whitespace are removed, the request is answered 500 and
\* convertScriptToAudio is not entered: no backend call, no clip, no final
\* file for that request.
Significant(text) ==
    {k \in DOMAIN text :
        /\ text[k] \notin {"WS", "FENCE"}
        /\ ~(text[k] = "json" /\ k > 1 /\ text[k - 1] = "FENCE")}

IsJsonText(text) == \E k \in DOMAIN text : text[k] = "ARR" /\ Significant(text) = {k}

NonJsonOutputIsRejected ==
    \A r \in Reqs :
        (raw[r] # NoText /\ ~IsJsonText(raw[r]))
        => /\ pc[r] = "done"
           /\ response[r] = <<ErrFormat>>
           /\ script[r] = <<>>
           /\ calls[r] = <<>>
           /\ tempFiles[r] = <<>>
           /\ written[r] = {}
           /\ ~MergeInvoked(r)

C7_Witness ==
    \E r \in Reqs : raw[r] = <<"TXT", "WS", "ARR">> /\ response[r] = <<ErrFormat>>

\* C8: when the backend call of line k fails, no call for a later line has
\* been or is started, the merge is not invoked, the request is answered with
\* the generic 500, and the clips of lines 0..k-1 are on disk.
LineFailureAbortsAndKeepsClips ==
    [][\A r \in Reqs :
          (failed[r] = {} /\ failed'[r] # {})
          => LET k == CHOOSE x \in failed'[r] : TRUE IN
                /\ response'[r] = <<ErrGeneric>>
                /\ pc'[r] = "done"
                /\ ~MergeInvoked(r)'
                /\ \A j \in DOMAIN calls'[r] : calls'[r][j] <= k
                /\ \A j \in 0..(k - 1) : fs'[TempPath(j)] # Absent]_vars

\* C9: when the merge fails the request is answered 500 without a file, the
\* step deletes nothing, and as many of the request's clips are on disk as it
\* had produced.
MergeFailureLeavesClips ==
    [][\A r \in Reqs :
          (pc[r] = "merge" /\ pc'[r] = "done")
          => /\ response'[r] = <<ErrGeneric>>
             /\ fs' = fs
             /\ Cardinality({k \in DOMAIN tempFiles[r] : fs'[tempFiles[r][k]] # Absent})
                   = Len(produced[r])]_vars

\* C10: every request gets at most one response, a 200 with the parsed script
\* and the URL of a final file that exists, or a 400/500 with only an error
\* message; no error escapes the route handler.
WellFormed(r, resp) ==
    \/ /\ resp.status = 200
       /\ resp.error = ""
       /\ resp.script = script[r]
       /\ resp.audio = <<"/audio/", finalFile[r]>>
       /\ MergeInvoked(r)
       /\ fs[finalFile[r]] # Absent
    \/ /\ resp.status \in {400, 500}
       /\ resp.error # ""
       /\ resp.script = <<>>
       /\ resp.audio = <<>>

EveryErrorBecomesOneResponse ==
    /\ ~crashed
    /\ \A r \in Reqs :
          /\ Len(response[r]) <= 1
          /\ response[r] # <<>> => WellFormed(r, response[r][1])


\* C11: once startup has finished the backend state is Cloud (useGoogleTts
\* true and a live client) or Local (useGoogleTts false); no step changes
\* useGoogleTts or googleTtsClient; and every backend call of every request,
\* also one made after a cloud call has failed, took the branch of that state.
BackendState == IF useGoogleTts /\ googleTtsClient # "null" THEN "cloud" ELSE "local"

BackendNeverChanges ==
    /\ [](started =>
            /\ (useGoogleTts /\ googleTtsClient # "null") \/ ~useGoogleTts
            /\ \A r \in Reqs : \A j \in DOMAIN handed[r] :
                   handed[r][j].backend = BackendState)
    /\ [][started => /\ useGoogleTts' = useGoogleTts
                     /\ googleTtsClient' = googleTtsClient]_vars

\* a cloud call has failed in one request and a later request made its calls
\* with the cloud backend
C11_Witness ==
    \E r \in Reqs : \E q \in Reqs \ {r} :
        /\ failed[q] # {}
        /\ handed[q][1].backend = "cloud"
        /\ Len(handed[r]) = 2
        /\ \A j \in DOMAIN handed[r] :
               handed[r][j].afterFailure /\ handed[r][j].backend = "cloud"


\* C12: when building the cloud client fails at startup (inline credentials
\* that are not JSON, credentials without private_key and project_id that the
\* library refuses, or any error thrown by the library), the failure is
\* caught: the backend ends as Local with no client, the module's top level
\* still reaches app.listen, and the constructor was called at most once.
NotJsonCredentials(e) == e.pathVar # "file" /\ e.creds = "junk"

LibraryThrows(e) == e.lib \in {"require-throws", "ctor-throws"}

ConstructionFails(e) ==
    /\ e.use \/ e.creds # "unset" \/ e.pathVar # "unset"
    /\ NotJsonCredentials(e) \/ LibraryThrows(e)

StartupFailureFallsBackToLocal ==
    /\ [](started =>
            /\ boot.attempts <= 1
            /\ ConstructionFails(env) =>
                   /\ boot.threw
                   /\ ~useGoogleTts
                   /\ googleTtsClient = "null")
    /\ [][~started => started']_vars

\* the library refused credentials that lack private_key and project_id
C12_Witness ==
    /\ started
    /\ env.creds = "rawpartial" /\ env.pathVar = "unset" /\ env.lib = "ctor-throws"
    /\ boot.source = "inline" /\ boot.options.creds[2] = Undefined
    /\ boot.attempts = 1 /\ boot.threw
    /\ ~useGoogleTts /\ googleTtsClient = "null"


\* C15: whenever the selector called the client constructor, the options it
\* passed came from the first usable source in this order: the file named by
\* the path variable if it exists; else GOOGLE_TTS_CREDENTIALS as a file path
\* if that file exists; else its base64-decoded content if that is JSON; else
\* the original string parsed as JSON.
PathFileUsable(e) == e.pathVar = "file"

CredsFileUsable(e) == e.creds = "path"

DecodedUsable(e) == e.creds \in {"b64", "b64raw"}

RawUsable(e) == e.creds \in {"b64raw", "raw", "rawpartial"}

CredentialSourcePriority ==
    (started /\ boot.attempts = 1) =>
        IF PathFileUsable(env)
        THEN boot.options.kind = "keyFilename" /\ boot.options.keyFilename = env.pathVar
        ELSE IF CredsFileUsable(env)
        THEN boot.options.kind = "keyFilename" /\ boot.options.keyFilename = env.creds
        ELSE IF DecodedUsable(env)
        THEN boot.options.kind = "credentials" /\ boot.options.creds[1] = "a@svc"
        ELSE IF RawUsable(env)
        THEN boot.options.kind = "credentials" /\ boot.options.creds[1] \in {"b@svc", "p@svc"}
        ELSE boot.options.kind = "undefined"

\* both variables name existing files and the path variable's file was used;
\* or the string is JSON both as it is and decoded, and the decoding was used
C15_Witness ==
    /\ started /\ boot.attempts = 1
    /\ \/ /\ env.pathVar = "file" /\ env.creds = "path"
          /\ boot.options.keyFilename = "file"
       \/ /\ env.pathVar = "nofile" /\ env.creds = "b64raw"
          /\ boot.options.creds[1] = "a@svc"


\* C13: on every platform and for every gender value (male, female, other,
\* missing, and other spellings) getOsVoiceNameByGender returns one of the two
\* voices of the platform's bucket: the male one exactly when the gender is
\* "male", the female one otherwise; never a third or an empty value.
Bucket(plat) == IF plat = "win32" THEN "Windows" ELSE IF plat = "darwin" THEN "Mac" ELSE "other"

MaleVoice == [Windows |-> "Microsoft David Desktop", Mac |-> "Alex", other |-> "en+m3"]

FemaleVoice == [Windows |-> "Microsoft Zira Desktop", Mac |-> "Samantha", other |-> "en+f3"]

VoiceIsOneOfThePlatformsTwo ==
    voiceName # NoVoice =>
        /\ voiceName \in {MaleVoice[Bucket(platform)], FemaleVoice[Bucket(platform)]}
        /\ voiceName # ""
        /\ (voiceName = MaleVoice[Bucket(platform)]) <=> (voiceGender = "male")

\* a voice was selected for a missing gender on a platform of the third bucket
C13_Witness ==
    /\ voiceGender = Undefined
    /\ platform = "freebsd"
    /\ voiceName = "en+f3"


\* C14: within one request the backend calls are made for lines 0, 1, 2, ...
\* in order, at most one of them is unfinished at any time, and when the call
\* for a line has been started the clips of all earlier lines have been
\* written by their calls and are recorded, in order, in the request's clip
\* list.
CallsStarted(r) == Len(calls[r])

CallsFinished(r) == Len(tempFiles[r]) + Cardinality(failed[r])

OneCallAtATimeInLineOrder ==
    \A r \in Reqs :
        /\ \A j \in DOMAIN calls[r] : calls[r][j] = j - 1
        /\ CallsStarted(r) - CallsFinished(r) \in {0, 1}
        /\ \A j \in DOMAIN calls[r] :
               /\ Len(tempFiles[r]) >= j - 1
               /\ Len(produced[r]) >= j - 1
               /\ \A m \in 1..(j - 1) :
                      /\ tempFiles[r][m] = TempPath(m - 1)
                      /\ produced[r][m] = TempPath(m - 1)

\* the local backend's call for the second line is under way: the first
\* line's clip has been transcoded and recorded
C14_Witness ==
    \E r \in Reqs :
        /\ pc[r] = "transcode"
        /\ calls[r] = <<0, 1>>
        /\ tempFiles[r] = <<TempPath(0)>>
        /\ produced[r] = <<TempPath(0)>>


\* C16: on the local backend a line's transcode is under way only after the
\* voice engine has written the line's WAV without error (and never after the
\* voice engine failed), and at the moment a line is synthesized successfully
\* (its clip is recorded) clip_i.mp3 exists and clip_i.wav does not.
LocalLineLeavesMp3AndNoWav ==
    /\ [](\A r \in Reqs :
             pc[r] \in {"transcode", "transcoded"} =>
                 /\ WavPath(i[r]) \in written[r]
                 /\ i[r] \notin failed[r])
    /\ [][\A r \in Reqs :
             (pc[r] = "transcoded" /\ Len(tempFiles'[r]) = Len(tempFiles[r]) + 1) =>
                 /\ fs'[TempPath(i[r])] # Absent
                 /\ fs'[WavPath(i[r])] = Absent]_vars


\* C17: for every backend call of a request whose host and guest names
\* differ, the gender behind the parameter handed to the backend is the one
\* the request registered for the line's speaker (hostGender for the host,
\* guestGender for a listed guest, none for any other name): the cloud backend
\* gets MALE for male, FEMALE for female and NEUTRAL otherwise, the local
\* backend the platform's voice for that gender.
RegisteredGender(b, speaker) ==
    IF speaker = b.host THEN b.hostGender
    ELSE IF \E k \in DOMAIN Guests(b.guestname) : Guests(b.guestname)[k] = speaker
    THEN b.guestGender
    ELSE Undefined

ExpectedParam(backend, gender) ==
    IF backend = "cloud"
    THEN (IF gender = "male" THEN "MALE" ELSE IF gender = "female" THEN "FEMALE" ELSE "NEUTRAL")
    ELSE (IF gender = "male" THEN MaleVoice[Bucket(platform)] ELSE FemaleVoice[Bucket(platform)])

HandedGenderIsTheRegisteredOne ==
    \A r \in Reqs : \A j \in DOMAIN handed[r] :
        handed[r][j].param =
            ExpectedParam(handed[r][j].backend, RegisteredGender(body[r], handed[r][j].speaker))


\* C18: two distinct requests that are both answered 200 were given distinct
\* final file paths, also when both reached the merge within the same clock
\* millisecond.
SuccessfulRequestsHaveDistinctFinalFiles ==
    \A r \in Reqs : \A q \in Reqs \ {r} :
        (Has200(r) /\ Has200(q)) => finalFile[r] # finalFile[q]


\* C19: when every external call of every request eventually completes, a
\* request that has arrived eventually receives a response, whatever the
\* interleaving with the other requests.
EveryRequestIsEventuallyAnswered ==
    \A r \in Reqs : (pc[r] # "idle") ~> (response[r] # <<>>)

====
